---- MODULE Spec2Model ----
(***************************************************************************)
(* Model of the conversion engine of WTOSRT (src/app.py): the line         *)
(* converter of ConversionWorker._convert_file and the batch job runner    *)
(* ConversionWorker.run with its concurrent cancel().                      *)
(***************************************************************************)
EXTENDS Integers, Sequences, FiniteSets, TLC

(***************************************************************************)
(* Python floats (IEEE-754 binary64, round to nearest, ties to even).      *)
(* A non-negative float is [ip, fb]: its value is ip + SUM fb[k] * 2^-k,   *)
(* with at most MantBits significant bits and no trailing zero in fb.      *)
(***************************************************************************)
MantBits == 53

RECURSIVE BitLen(_)
BitLen(n) == IF n = 0 THEN 0 ELSE 1 + BitLen(n \div 2)

RECURSIVE Pow10(_)
Pow10(n) == IF n = 0 THEN 1 ELSE 10 * Pow10(n - 1)

RECURSIVE Pow2(_)
Pow2(n) == IF n = 0 THEN 1 ELSE 2 * Pow2(n - 1)

\* 2^k mod d, by squaring (d <= 10^4, so no product leaves 32 bits)
RECURSIVE Pow2Mod(_, _)
Pow2Mod(k, d) ==
    IF k = 0 THEN 1 % d
    ELSE LET h == Pow2Mod(k \div 2, d)
         IN  (((h * h) % d) * (IF k % 2 = 1 THEN 2 ELSE 1)) % d

\* The number of zeros b starts with, and b without the zeros it ends with.
LeadZeros(b) ==
    IF \A k \in 1..Len(b) : b[k] = 0 THEN Len(b)
    ELSE (CHOOSE k \in 1..Len(b) : b[k] = 1 /\ \A j \in 1..(k - 1) : b[j] = 0) - 1

TrimZeros(b) ==
    IF \A k \in 1..Len(b) : b[k] = 0 THEN <<>>
    ELSE SubSeq(b, 1, CHOOSE k \in 1..Len(b) : b[k] = 1 /\ \A j \in (k + 1)..Len(b) : b[j] = 0)

\* Bit k of the binary expansion of r / d (0 <= r < d), and what is left of
\* r / d below bit k, as a remainder.
RatioBit(r, d, k) == (2 * ((r * Pow2Mod(k - 1, d)) % d)) \div d
RatioRem(r, d, k) == (r * Pow2Mod(k, d)) % d

\* The zero bits r / d starts with (0 < r < d).
RECURSIVE RatioLeadZeros(_, _)
RatioLeadZeros(r, d) == IF 2 * r >= d THEN 0 ELSE 1 + RatioLeadZeros(2 * r, d)

\* b + one unit in its last place; carry is 1 when every bit was 1.
IncBits(b) ==
    IF \A k \in 1..Len(b) : b[k] = 1
    THEN [bits |-> [k \in 1..Len(b) |-> 0], carry |-> 1]
    ELSE LET p == CHOOSE k \in 1..Len(b) : b[k] = 0 /\ \A j \in (k + 1)..Len(b) : b[j] = 1
         IN  [bits  |-> [k \in 1..Len(b) |-> IF k < p THEN b[k] ELSE IF k = p THEN 1 ELSE 0],
              carry |-> 0]

\* Round the exact value ip + b (+ something below b's last place when
\* sticky), of which k fraction bits fit a float, to nearest, ties to even.
RoundFloat(ip, b, k, sticky) ==
    IF Len(b) <= k THEN [ip |-> ip, fb |-> TrimZeros(b)]
    ELSE LET kept  == SubSeq(b, 1, k)
             guard == b[k + 1]
             below == sticky \/ \E j \in (k + 2)..Len(b) : b[j] = 1
             lsb   == IF k = 0 THEN ip % 2 ELSE kept[k]
             up    == IncBits(kept)
         IN  IF guard = 1 /\ (below \/ lsb = 1)
             THEN [ip |-> ip + up.carry, fb |-> TrimZeros(up.bits)]
             ELSE [ip |-> ip, fb |-> TrimZeros(kept)]

\* The fraction bits a float of integer part ip and fraction b keeps
\* (MantBits significant bits).
KeepBits(ip, b) ==
    IF ip > 0 THEN MantBits - BitLen(ip) ELSE LeadZeros(b) + MantBits

\* The float nearest to ip + r / d (0 <= r < d): float("<ip>.<digits>") with
\* d a power of ten, and the quotient a / b of two integers.
FloatOfRatio(ip, r, d) ==
    IF r = 0 THEN [ip |-> ip, fb |-> <<>>]
    ELSE LET k == IF ip > 0 THEN MantBits - BitLen(ip)
                  ELSE RatioLeadZeros(r, d) + MantBits
         IN  RoundFloat(ip, [j \in 1..(k + 1) |-> RatioBit(r, d, j)], k,
                        RatioRem(r, d, k + 1) # 0)

\* c * b for a fraction b and an integer 0 < c < 2^23, computed on the bytes
\* of b from the last one up: [bits, carry], carry the integer part.
BitAt(b, j) == IF j <= Len(b) THEN b[j] ELSE 0
ByteAt(b, q) ==
    LET o == 8 * (q - 1)
    IN  128 * BitAt(b, o + 1) + 64 * BitAt(b, o + 2) + 32 * BitAt(b, o + 3)
        + 16 * BitAt(b, o + 4) + 8 * BitAt(b, o + 5) + 4 * BitAt(b, o + 6)
        + 2 * BitAt(b, o + 7) + BitAt(b, o + 8)

\* <<t_q, ..., t_n>>, t_q = c * (byte q of b) + the carry of byte q + 1
RECURSIVE MulByteSums(_, _, _)
MulByteSums(b, c, q) ==
    IF 8 * (q - 1) >= Len(b) THEN <<>>
    ELSE LET rest == MulByteSums(b, c, q + 1)
         IN  <<ByteAt(b, q) * c + (IF rest = <<>> THEN 0 ELSE rest[1] \div 256)>> \o rest

MulBits(b, c) ==
    LET t == MulByteSums(b, c, 1)
    IN  [bits  |-> [j \in 1..Len(b) |->
                      ((t[((j - 1) \div 8) + 1] % 256) \div Pow2(7 - ((j - 1) % 8))) % 2],
         carry |-> IF t = <<>> THEN 0 ELSE t[1] \div 256]

\* f * c, f a float and c an integer (exact as a float).
FloatMulInt(f, c) ==
    LET p  == MulBits(f.fb, c)
        ip == f.ip * c + p.carry
    IN  RoundFloat(ip, p.bits, KeepBits(ip, p.bits), FALSE)

\* n + f, n an integer (exact as a float) and f a float.
FloatAddInt(n, f) == RoundFloat(n + f.ip, f.fb, KeepBits(n + f.ip, f.fb), FALSE)

\* f - int(f): exact.
FloatFrac(f) == [ip |-> 0, fb |-> f.fb]

\* f < g
FloatLess(f, g) ==
    \/ f.ip < g.ip
    \/ /\ f.ip = g.ip
       /\ \E k \in 1..Len(g.fb) :
            /\ g.fb[k] = 1
            /\ BitAt(f.fb, k) = 0
            /\ \A j \in 1..(k - 1) : BitAt(f.fb, j) = g.fb[j]

(***************************************************************************)
(* Text.  A string is a sequence of characters.  A line is a sequence of   *)
(* tokens, each a string: "[", "]", a blank, a letter, the arrow "->" or a *)
(* run of digits, ":" and "." (a timestamp when it matches \d+:\d+\.\d+).  *)
(***************************************************************************)
DigitChars == {"0", "1", "2", "3", "4", "5", "6", "7", "8", "9"}

DigitVal(c) ==
    CASE c = "0" -> 0 [] c = "1" -> 1 [] c = "2" -> 2 [] c = "3" -> 3 [] c = "4" -> 4
      [] c = "5" -> 5 [] c = "6" -> 6 [] c = "7" -> 7 [] c = "8" -> 8 [] c = "9" -> 9

DigitChar(n) ==
    CASE n = 0 -> "0" [] n = 1 -> "1" [] n = 2 -> "2" [] n = 3 -> "3" [] n = 4 -> "4"
      [] n = 5 -> "5" [] n = 6 -> "6" [] n = 7 -> "7" [] n = 8 -> "8" [] n = 9 -> "9"

IsDigits(str) == str # <<>> /\ \A k \in 1..Len(str) : str[k] \in DigitChars

\* int("<digits>")
RECURSIVE NatOf(_)
NatOf(str) ==
    IF str = <<>> THEN 0
    ELSE 10 * NatOf(SubSeq(str, 1, Len(str) - 1)) + DigitVal(str[Len(str)])

\* str(n) for n >= 0
RECURSIVE Digits(_)
Digits(n) == IF n < 10 THEN <<DigitChar(n)>> ELSE Digits(n \div 10) \o <<DigitChar(n % 10)>>

\* str.split(sep): the pieces of str between the occurrences of sep
RECURSIVE Split(_, _)
Split(str, sep) ==
    IF \A k \in 1..Len(str) : str[k] # sep THEN <<str>>
    ELSE LET p == CHOOSE k \in 1..Len(str) : str[k] = sep /\ \A j \in 1..(k - 1) : str[j] # sep
         IN  <<SubSeq(str, 1, p - 1)>> \o Split(SubSeq(str, p + 1, Len(str)), sep)

\* a parser of whole numbers, which raises on a fraction point
FloatParsesWhole(str) ==
    /\ \A k \in 1..Len(str) : str[k] \in DigitChars
    /\ \E k \in 1..Len(str) : str[k] \in DigitChars

\* float(str) for a string of digits, ".", ":" and ",": Python accepts
\* digits with at most one "." among them, and raises ValueError otherwise.
\* (The model keeps up to four fraction digits: 10^4 squared fits 32 bits.)
FloatParses(str) ==
    /\ \A k \in 1..Len(str) : str[k] \in DigitChars \cup {"."}
    /\ \E k \in 1..Len(str) : str[k] \in DigitChars
    /\ Len(Split(str, ".")) <= 2

FloatOf(str) ==
    LET parts == Split(str, ".")
        whole == NatOf(parts[1])
    IN  IF Len(parts) = 1 THEN [ip |-> whole, fb |-> <<>>]
        ELSE FloatOfRatio(whole, NatOf(parts[2]), Pow10(Len(parts[2])))

\* _time_to_seconds: m, s = map(float, timestamp.split(':')); max(0, m * 60 + s).
\* ok is FALSE where Python raises ValueError (not two parts, or a part that
\* is no float).  The minutes are whole in every timestamp the pattern lets
\* through, so m * 60 is exact and the sum is rounded once.
TimeToSeconds(timestamp) ==
    LET parts == Split(timestamp, ":")
    IN  IF Len(parts) = 2 /\ FloatParses(parts[1]) /\ FloatParses(parts[2])
        THEN [ok |-> TRUE, val |-> FloatAddInt(FloatMulInt(FloatOf(parts[1]), 60).ip, FloatOf(parts[2]))]
        ELSE [ok |-> FALSE, val |-> [ip |-> 0, fb |-> <<>>]]

\* a millisecond field that holds hundredths of a second
TimeFieldsHundredths(secs) ==
    [hours        |-> (secs.ip \div 60) \div 60,
     minutes      |-> (secs.ip \div 60) % 60,
     seconds      |-> secs.ip % 60,
     milliseconds |-> FloatMulInt(FloatFrac(secs), 100).ip]

\* The numbers _format_time derives: int((seconds - int(seconds)) * 1000),
\* then divmod by 60 twice (the hours are not wrapped).
TimeFields(secs) ==
    [hours        |-> (secs.ip \div 60) \div 60,
     minutes      |-> (secs.ip \div 60) % 60,
     seconds      |-> secs.ip % 60,
     milliseconds |-> FloatMulInt(FloatFrac(secs), 1000).ip]

\* f"{n:0wd}": the decimal digits of n, zero-padded on the left to width w.
RECURSIVE ZeroPad(_, _)
ZeroPad(str, w) == IF Len(str) >= w THEN str ELSE ZeroPad(<<"0">> \o str, w)

\* f"{hours:02d}:{minutes:02d}:{seconds:02d},{milliseconds:03d}"
FormatTime(secs) ==
    LET f == TimeFields(secs)
    IN  ZeroPad(Digits(f.hours), 2) \o <<":">> \o ZeroPad(Digits(f.minutes), 2) \o <<":">>
        \o ZeroPad(Digits(f.seconds), 2) \o <<",">> \o ZeroPad(Digits(f.milliseconds), 3)

(***************************************************************************)
(* The line converter: the body of the loop of _convert_file.              *)
(***************************************************************************)
LBracket == <<"[">>
RBracket == <<"]">>
Blank    == <<" ">>
Letter   == <<"a">>
Arrow    == <<"-", ">">>

\* \d+:\d+\.\d+ matches the whole token
IsTimestamp(tok) ==
    LET parts == Split(tok, ":")
    IN  /\ Len(parts) = 2
        /\ IsDigits(parts[1])
        /\ Len(Split(parts[2], ".")) = 2
        /\ IsDigits(Split(parts[2], ".")[1])
        /\ IsDigits(Split(parts[2], ".")[2])

\* \s* from token k on: the first token that is not blank
RECURSIVE SkipBlanks(_, _)
SkipBlanks(line, k) ==
    IF k <= Len(line) /\ line[k] = Blank THEN SkipBlanks(line, k + 1) ELSE k

\* a pattern without the closing bracket
MatchAtUnclosed(line, p) ==
    LET a == SkipBlanks(line, p + 2)
        e == SkipBlanks(line, a + 1)
    IN  /\ e + 1 <= Len(line)
        /\ line[p] = LBracket
        /\ IsTimestamp(line[p + 1])
        /\ line[a] = Arrow
        /\ IsTimestamp(line[e])

\* r'\[(\d+:\d+\.\d+)\s*->\s*(\d+:\d+\.\d+)\]' matches at token p
MatchAt(line, p) ==
    LET a == SkipBlanks(line, p + 2)
        e == SkipBlanks(line, a + 1)
    IN  /\ e + 1 <= Len(line)
        /\ line[p] = LBracket
        /\ IsTimestamp(line[p + 1])
        /\ line[a] = Arrow
        /\ IsTimestamp(line[e])
        /\ line[e + 1] = RBracket

\* re.search: the leftmost match and its two groups
TimeMatch(line) ==
    IF \E p \in 1..Len(line) : MatchAt(line, p)
    THEN LET p == CHOOSE q \in 1..Len(line) :
                     MatchAt(line, q) /\ \A r \in 1..(q - 1) : ~MatchAt(line, r)
         IN  [found |-> TRUE, group1 |-> line[p + 1],
              group2 |-> line[SkipBlanks(line, SkipBlanks(line, p + 2) + 1)]]
    ELSE [found |-> FALSE, group1 |-> <<>>, group2 |-> <<>>]

\* a substitution that removes the first bracketed token only
SubBracketsOnce(line) ==
    IF \E p \in 1..Len(line) : line[p] = LBracket /\ \E k \in (p + 1)..Len(line) : line[k] = RBracket
    THEN LET p == CHOOSE q \in 1..Len(line) :
                     /\ line[q] = LBracket /\ \E k \in (q + 1)..Len(line) : line[k] = RBracket
                     /\ \A r \in 1..(q - 1) : line[r] # LBracket
             c == CHOOSE k \in (p + 1)..Len(line) :
                     line[k] = RBracket /\ \A j \in (p + 1)..(k - 1) : line[j] # RBracket
         IN  SubSeq(line, 1, p - 1) \o SubSeq(line, c + 1, Len(line))
    ELSE line

\* re.sub(r'\[.*?\]', '', line): from each "[" to the nearest "]" after it
RECURSIVE SubBrackets(_)
SubBrackets(line) ==
    IF line = <<>> THEN <<>>
    ELSE IF Head(line) = LBracket /\ \E k \in 2..Len(line) : line[k] = RBracket
    THEN LET c == CHOOSE k \in 2..Len(line) :
                     line[k] = RBracket /\ \A j \in 2..(k - 1) : line[j] # RBracket
         IN  SubBrackets(SubSeq(line, c + 1, Len(line)))
    ELSE <<Head(line)>> \o SubBrackets(Tail(line))

\* str.strip(): without the blanks at both ends
Strip(line) ==
    IF \A k \in 1..Len(line) : line[k] = Blank THEN <<>>
    ELSE SubSeq(line,
                CHOOSE k \in 1..Len(line) :
                    line[k] # Blank /\ \A j \in 1..(k - 1) : line[j] = Blank,
                CHOOSE k \in 1..Len(line) :
                    line[k] # Blank /\ \A j \in (k + 1)..Len(line) : line[j] = Blank)

\* the characters of a sequence of tokens
RECURSIVE Flatten(_)
Flatten(line) == IF line = <<>> THEN <<>> ELSE Head(line) \o Flatten(Tail(line))

\* The timestamps of the model's inputs, with their seconds and formatted
\* times computed once (TimeToSeconds and FormatTime applied to each).
TimeTokens ==
    << <<"0", ":", "0", "1", ".", "2", "0", "0">>,
       <<"0", ":", "0", "3", ".", "5", "0", "0">>,
       <<"0", ":", "0", "5", ".", "0", "0", "0">>,
       <<"0", ":", "0", "4", ".", "0", "0", "0">>,
       <<"0", ":", "0", "1", ".", "2", "0", "0", "4">>,
       <<"0", ":", "0", "1", ".", "2", "0", "0", "9">>,
       <<"6", "1", ":", "0", "1", ".", "5">> >>

SecondsMemo == [k \in 1..Len(TimeTokens) |-> TimeToSeconds(TimeTokens[k])]
FormatMemo  == [k \in 1..Len(TimeTokens) |-> FormatTime(SecondsMemo[k].val)]

Seconds(tok) ==
    IF \E k \in 1..Len(TimeTokens) : TimeTokens[k] = tok
    THEN SecondsMemo[CHOOSE k \in 1..Len(TimeTokens) : TimeTokens[k] = tok]
    ELSE TimeToSeconds(tok)

Formatted(tok) ==
    IF \E k \in 1..Len(TimeTokens) : TimeTokens[k] = tok
    THEN FormatMemo[CHOOSE k \in 1..Len(TimeTokens) : TimeTokens[k] = tok]
    ELSE FormatTime(TimeToSeconds(tok).val)

\* an interval test that lets start = end through
ValidIntervalOrEqual(start_time, end_time) == ~FloatLess(end_time, start_time)

\* the negation of `start_time >= end_time`
ValidInterval(start_time, end_time) == FloatLess(start_time, end_time)

\* One pass of the loop body on `line` with subtitle_index = cue_index:
\* out is what is written to outfile (its lines, as strings), index the
\* subtitle_index afterwards, error whether the error signal is emitted.
ConvertLine(line, cue_index) ==
    LET time_match == TimeMatch(line)
        skip       == [out |-> <<>>, index |-> cue_index, error |-> FALSE]
    IN  IF ~time_match.found THEN skip
        ELSE IF ~Seconds(time_match.group1).ok \/ ~Seconds(time_match.group2).ok
        THEN [skip EXCEPT !.error = TRUE]
        ELSE IF ~ValidInterval(Seconds(time_match.group1).val, Seconds(time_match.group2).val)
        THEN skip
        ELSE IF Strip(SubBrackets(line)) = <<>> THEN skip
        ELSE [out   |-> << Digits(cue_index),
                           Formatted(time_match.group1) \o <<" ", "-", "-", ">", " ">>
                               \o Formatted(time_match.group2),
                           Flatten(Strip(SubBrackets(line))),
                           <<>> >>,
              index |-> cue_index + 1,
              error |-> FALSE]

(***************************************************************************)
(* The batch job runner: ConversionWorker and the caller's cancel().       *)
(***************************************************************************)
VARIABLES
    input_files,     \* ConversionWorker.input_files: the FileInfo list
    batch_size,      \* ConversionWorker.batch_size
    is_cancelled,    \* ConversionWorker._is_cancelled
    mutex,           \* ConversionWorker._mutex: "free", or who holds it
    files,           \* the input files on disk, by input path
    dirs,            \* the output directories on disk, by name
    outputs,         \* the output files on disk, by output path
    pc,              \* where the worker thread is
    total,           \* _process_files_in_batches: total
    index,           \* the start of the current batch (i of the batch loop)
    batch,           \* the current batch
    i,               \* _process_batch: the position in the batch
    pos,             \* _convert_file: the lines of infile read so far
    subtitle_index,  \* _convert_file: subtitle_index
    events,          \* the signals emitted so far, in order
    caller,          \* where the caller's cancel() is
    started,         \* history: the jobs _process_batch has begun
    opened,          \* history: the jobs whose files _convert_file opened
    cancel_at,       \* history: `started` and pc when cancel() began and ended
    history          \* history: every line converted, with what it produced

vars == <<input_files, batch_size, is_cancelled, mutex, files, dirs, outputs, pc,
          total, index, batch, i, pos, subtitle_index, events, caller,
          started, opened, cancel_at, history>>

MaxJobs  == 3
MaxBatch == 3
DefaultBatchSize == 100

FileNames == <<"a.txt", "b.txt", "c.txt", "d.txt", "e.txt">>
SrtNames  == <<"a.srt", "b.srt", "c.srt", "d.srt", "e.srt">>
DirNames  == <<"out1", "out2", "out3", "out4", "out5">>

\* FileInfo of the n-th job: its input lies in "in", its output in its own directory
FileInfo(n) ==
    [input_path  |-> [dir |-> "in", name |-> FileNames[n]],
     output_path |-> [dir |-> DirNames[n], name |-> SrtNames[n]]]

\* os.path.basename, os.path.dirname
Basename(path) == path.name
Dirname(path)  == path.dir

\* Lines of the input files of the runs
CueLine1  == <<LBracket, TimeTokens[1], Blank, Arrow, Blank, TimeTokens[2], RBracket, Blank, Letter>>
CueLine2  == <<LBracket, TimeTokens[2], Arrow, TimeTokens[7], RBracket, Letter, Blank, Letter>>
BadOrder  == <<LBracket, TimeTokens[3], Blank, Arrow, Blank, TimeTokens[4], RBracket, Blank, Letter>>

\* What the disk holds for one job: the input file (exists, can be opened,
\* its lines, whether reading past them raises) and the output directory.
GoodDir == [exists |-> TRUE, creatable |-> TRUE, writable |-> TRUE]
JobKinds ==
    {[file |-> [exists |-> TRUE, readable |-> TRUE, lines |-> <<CueLine1, BadOrder, CueLine2>>, fails |-> FALSE],
      dir  |-> [exists |-> FALSE, creatable |-> TRUE, writable |-> TRUE]],
     [file |-> [exists |-> FALSE, readable |-> FALSE, lines |-> <<>>, fails |-> FALSE],
      dir  |-> [exists |-> FALSE, creatable |-> TRUE, writable |-> TRUE]],
     [file |-> [exists |-> TRUE, readable |-> TRUE, lines |-> <<CueLine1>>, fails |-> FALSE],
      dir  |-> [exists |-> FALSE, creatable |-> FALSE, writable |-> FALSE]],
     [file |-> [exists |-> TRUE, readable |-> TRUE, lines |-> <<CueLine1>>, fails |-> FALSE],
      dir  |-> [exists |-> TRUE, creatable |-> TRUE, writable |-> FALSE]],
     [file |-> [exists |-> TRUE, readable |-> FALSE, lines |-> <<>>, fails |-> FALSE],
      dir  |-> GoodDir],
     [file |-> [exists |-> TRUE, readable |-> TRUE, lines |-> <<>>, fails |-> TRUE],
      dir  |-> GoodDir]}

BatchSizes == {-1} \cup 0..MaxBatch

NoCancel == [invoked |-> FALSE, returned |-> FALSE, started |-> 0, upto |-> 0, between |-> FALSE]

\* ConversionWorker.__init__ on a list of n jobs, over a disk
InitWorker(n, kinds, size) ==
    /\ input_files = [k \in 1..n |-> FileInfo(k)]
    /\ batch_size = size
    /\ is_cancelled = FALSE
    /\ mutex = "free"
    /\ files = [path \in {FileInfo(k).input_path : k \in 1..n} |->
                  kinds[CHOOSE k \in 1..n : FileInfo(k).input_path = path].file]
    /\ dirs = [d \in {DirNames[k] : k \in 1..n} |->
                  kinds[CHOOSE k \in 1..n : DirNames[k] = d].dir]
    /\ outputs = [path \in {FileInfo(k).output_path : k \in 1..n} |->
                  [exists |-> FALSE, data |-> <<>>]]
    /\ pc = "new"
    /\ total = 0
    /\ index = 0
    /\ batch = <<>>
    /\ i = 0
    /\ pos = 0
    /\ subtitle_index = 1
    /\ events = <<>>
    /\ caller = "idle"
    /\ started = 0
    /\ opened = {}
    /\ cancel_at = NoCancel
    /\ history = <<>>

Init ==
    \E n \in 0..MaxJobs : \E kinds \in [1..n -> JobKinds] : \E size \in BatchSizes :
        InitWorker(n, kinds, size)

\* The signals: progress(int, str), error(str), finished()
ProgressEvent(percent, label) == [type |-> "progress", label |-> label, percent |-> percent, msg |-> ""]
JobError(label, msg)          == [type |-> "error", label |-> label, percent |-> 0, msg |-> msg]
RunError(msg)                 == [type |-> "error", label |-> "", percent |-> 0, msg |-> msg]
Finished                      == [type |-> "finished", label |-> "", percent |-> 0, msg |-> ""]

\* a slice that starts one job early in every batch after the first
BatchOverlapping(list, from, size) ==
    SubSeq(list, IF from = 0 THEN 1 ELSE from,
           IF from + size < Len(list) THEN from + size ELSE Len(list))

\* a slice that keeps only the first job of each batch
BatchFirstOnly(list, from, size) == SubSeq(list, from + 1, from + 1)

\* a slice handed over in reverse order
BatchReversed(list, from, size) ==
    LET last == IF from + size < Len(list) THEN from + size ELSE Len(list)
    IN  [k \in 1..(last - from) |-> list[last + 1 - k]]

\* input_files[index : index + batch_size], for a positive batch_size
Batch(list, from, size) ==
    SubSeq(list, from + 1, IF from + size < Len(list) THEN from + size ELSE Len(list))

\* range(0, total, batch_size) still has the value `index`
InRange == IF batch_size > 0 THEN index < total ELSE FALSE

\* a percent of the position in the batch, not in the list
PercentInBatch(done, count) ==
    FloatMulInt(FloatOfRatio(i \div count, i % count, count), 100).ip

\* int(((i + index) / total) * 100), in floats
Percent(done, count) ==
    FloatMulInt(FloatOfRatio(done \div count, done % count, count), 100).ip

file_info == batch[i + 1]

\* run(): enters _process_files_in_batches; range() raises on a zero step
RunBegin ==
    /\ pc = "new"
    /\ total' = Len(input_files)
    /\ index' = 0
    /\ pc' = IF batch_size = 0 THEN "except" ELSE "batch_head"
    /\ UNCHANGED <<input_files, batch_size, is_cancelled, mutex, files, dirs, outputs,
                   batch, i, pos, subtitle_index, events, caller,
                   started, opened, cancel_at, history>>

\* a batch loop that reads the flag without waiting for the lock
BatchLockUnguarded ==
    /\ pc = "batch_head"
    /\ InRange
    /\ mutex' = "worker"
    /\ pc' = "batch_check"
    /\ UNCHANGED <<input_files, batch_size, is_cancelled, files, dirs, outputs,
                   total, index, batch, i, pos, subtitle_index, events, caller,
                   started, opened, cancel_at, history>>

\* the batch loop takes the lock
BatchLock ==
    /\ pc = "batch_head"
    /\ InRange
    /\ mutex = "free"
    /\ mutex' = "worker"
    /\ pc' = "batch_check"
    /\ UNCHANGED <<input_files, batch_size, is_cancelled, files, dirs, outputs,
                   total, index, batch, i, pos, subtitle_index, events, caller,
                   started, opened, cancel_at, history>>

\* the batch loop is exhausted
BatchesDone ==
    /\ pc = "batch_head"
    /\ ~InRange
    /\ pc' = "finally"
    /\ UNCHANGED <<input_files, batch_size, is_cancelled, mutex, files, dirs, outputs,
                   total, index, batch, i, pos, subtitle_index, events, caller,
                   started, opened, cancel_at, history>>

\* a batch loop that enters the batch whatever the flag says
BatchCheckIgnoresFlag ==
    /\ pc = "batch_check"
    /\ mutex' = "free"
    /\ batch' = Batch(input_files, index, batch_size)
    /\ i' = 0
    /\ pc' = "job_head"
    /\ UNCHANGED <<input_files, batch_size, is_cancelled, files, dirs, outputs,
                   total, index, pos, subtitle_index, events, caller,
                   started, opened, cancel_at, history>>

\* under the lock: break if cancelled; then slice the batch and enter _process_batch
BatchCheck ==
    /\ pc = "batch_check"
    /\ mutex' = "free"
    /\ IF is_cancelled
       THEN /\ pc' = "finally"
            /\ UNCHANGED <<batch, i>>
       ELSE /\ batch' = Batch(input_files, index, batch_size)
            /\ i' = 0
            /\ pc' = "job_head"
    /\ UNCHANGED <<input_files, batch_size, is_cancelled, files, dirs, outputs,
                   total, index, pos, subtitle_index, events, caller,
                   started, opened, cancel_at, history>>

\* _process_batch returns; the batch loop steps
BatchEnd ==
    /\ pc = "job_head"
    /\ i = Len(batch)
    /\ index' = index + batch_size
    /\ pc' = "batch_head"
    /\ UNCHANGED <<input_files, batch_size, is_cancelled, mutex, files, dirs, outputs,
                   total, batch, i, pos, subtitle_index, events, caller,
                   started, opened, cancel_at, history>>

\* a job whose output directory is made before its input is looked for
CheckJobDirFirst ==
    /\ pc = "job_head"
    /\ i < Len(batch)
    /\ started' = started + 1
    /\ LET label == Basename(file_info.input_path)
           dir   == Dirname(file_info.output_path)
       IN  IF ~dirs[dir].exists /\ ~dirs[dir].creatable
           THEN /\ events' = Append(events, JobError(label, "makedirs"))
                /\ i' = i + 1
                /\ UNCHANGED <<dirs, pc>>
           ELSE /\ dirs' = [dirs EXCEPT ![dir].exists = TRUE]
                /\ IF ~files[file_info.input_path].exists
                   THEN /\ events' = Append(events, JobError(label, "not found"))
                        /\ i' = i + 1
                        /\ UNCHANGED pc
                   ELSE IF ~dirs[dir].writable
                   THEN /\ events' = Append(events, JobError(label, "no write permission"))
                        /\ i' = i + 1
                        /\ UNCHANGED pc
                   ELSE /\ pc' = "convert"
                        /\ UNCHANGED <<events, i>>
    /\ UNCHANGED <<input_files, batch_size, is_cancelled, mutex, files, outputs,
                   total, index, batch, pos, subtitle_index, caller,
                   opened, cancel_at, history>>

\* one job of the batch, up to the call of _convert_file
CheckJob ==
    /\ pc = "job_head"
    /\ i < Len(batch)
    /\ started' = started + 1
    /\ LET label == Basename(file_info.input_path)
           dir   == Dirname(file_info.output_path)
       IN  IF ~files[file_info.input_path].exists
           THEN /\ events' = Append(events, JobError(label, "not found"))
                /\ i' = i + 1
                /\ UNCHANGED <<dirs, pc>>
           ELSE IF ~dirs[dir].exists /\ ~dirs[dir].creatable
           THEN /\ events' = Append(events, JobError(label, "makedirs"))
                /\ i' = i + 1
                /\ UNCHANGED <<dirs, pc>>
           ELSE /\ dirs' = [dirs EXCEPT ![dir].exists = TRUE]
                /\ IF ~dirs[dir].writable
                   THEN /\ events' = Append(events, JobError(label, "no write permission"))
                        /\ i' = i + 1
                        /\ UNCHANGED pc
                   ELSE /\ pc' = "convert"
                        /\ UNCHANGED <<events, i>>
    /\ UNCHANGED <<input_files, batch_size, is_cancelled, mutex, files, outputs,
                   total, index, batch, pos, subtitle_index, caller,
                   opened, cancel_at, history>>

\* a numbering that carries on from the file converted before
CarriedIndex == subtitle_index

\* subtitle_index = 1
FirstIndex == 1

\* _convert_file opens the input, then creates or truncates the output
OpenFiles ==
    /\ pc = "convert"
    /\ IF ~files[file_info.input_path].readable
       THEN /\ events' = Append(events, JobError(Basename(file_info.input_path), "open"))
            /\ i' = i + 1
            /\ pc' = "job_head"
            /\ UNCHANGED <<outputs, pos, subtitle_index, opened>>
       ELSE /\ outputs' = [outputs EXCEPT ![file_info.output_path] = [exists |-> TRUE, data |-> <<>>]]
            /\ pos' = 0
            /\ subtitle_index' = FirstIndex
            /\ opened' = opened \cup {index + i + 1}
            /\ pc' = "line_head"
            /\ UNCHANGED <<events, i>>
    /\ UNCHANGED <<input_files, batch_size, is_cancelled, mutex, files, dirs,
                   total, index, batch, caller, started, cancel_at, history>>

\* the line loop has a line and takes the lock
LineLock ==
    /\ pc = "line_head"
    /\ pos < Len(files[file_info.input_path].lines)
    /\ mutex = "free"
    /\ mutex' = "worker"
    /\ pc' = "line_check"
    /\ UNCHANGED <<input_files, batch_size, is_cancelled, files, dirs, outputs,
                   total, index, batch, i, pos, subtitle_index, events, caller,
                   started, opened, cancel_at, history>>

\* a line loop that converts the line whatever the flag says
LineCheckIgnoresFlag ==
    /\ pc = "line_check"
    /\ mutex' = "free"
    /\ LET line == files[file_info.input_path].lines[pos + 1]
           made == ConvertLine(line, subtitle_index)
       IN  /\ outputs' = [outputs EXCEPT ![file_info.output_path].data = @ \o made.out]
           /\ subtitle_index' = made.index
           /\ events' = IF made.error
                        THEN Append(events, RunError("invalid time format"))
                        ELSE events
           /\ history' = Append(history, [job |-> index + i + 1, line |-> line,
                                           before |-> subtitle_index, made |-> made])
           /\ pos' = pos + 1
           /\ pc' = "line_head"
    /\ UNCHANGED <<input_files, batch_size, is_cancelled, files, dirs,
                   total, index, batch, i, caller, started, opened, cancel_at>>

\* under the lock: return if cancelled; then convert the line
LineCheck ==
    /\ pc = "line_check"
    /\ mutex' = "free"
    /\ IF is_cancelled
       THEN /\ pc' = "progress"
            /\ UNCHANGED <<outputs, pos, subtitle_index, events, history>>
       ELSE LET line == files[file_info.input_path].lines[pos + 1]
                made == ConvertLine(line, subtitle_index)
            IN  /\ outputs' = [outputs EXCEPT ![file_info.output_path].data = @ \o made.out]
                /\ subtitle_index' = made.index
                /\ events' = IF made.error
                             THEN Append(events, RunError("invalid time format"))
                             ELSE events
                /\ history' = Append(history, [job |-> index + i + 1, line |-> line,
                                                before |-> subtitle_index, made |-> made])
                /\ pos' = pos + 1
                /\ pc' = "line_head"
    /\ UNCHANGED <<input_files, batch_size, is_cancelled, files, dirs,
                   total, index, batch, i, caller, started, opened, cancel_at>>

\* the input is exhausted, or reading it raises
EndOfFile ==
    /\ pc = "line_head"
    /\ pos = Len(files[file_info.input_path].lines)
    /\ IF files[file_info.input_path].fails
       THEN /\ events' = Append(events, JobError(Basename(file_info.input_path), "read"))
            /\ i' = i + 1
            /\ pc' = "job_head"
       ELSE /\ pc' = "progress"
            /\ UNCHANGED <<events, i>>
    /\ UNCHANGED <<input_files, batch_size, is_cancelled, mutex, files, dirs, outputs,
                   total, index, batch, pos, subtitle_index, caller,
                   started, opened, cancel_at, history>>

\* _convert_file has returned: progress.emit
EmitProgress ==
    /\ pc = "progress"
    /\ events' = Append(events, ProgressEvent(Percent(i + index, total),
                                              Basename(file_info.input_path)))
    /\ i' = i + 1
    /\ pc' = "job_head"
    /\ UNCHANGED <<input_files, batch_size, is_cancelled, mutex, files, dirs, outputs,
                   total, index, batch, pos, subtitle_index, caller,
                   started, opened, cancel_at, history>>

\* an except clause that ends the run without reaching the finally clause
RunExceptEscapes ==
    /\ pc = "except"
    /\ events' = Append(events, RunError("range() arg 3 must not be zero"))
    /\ pc' = "done"
    /\ UNCHANGED <<input_files, batch_size, is_cancelled, mutex, files, dirs, outputs,
                   total, index, batch, i, pos, subtitle_index, caller,
                   started, opened, cancel_at, history>>

\* run(): except Exception
RunExcept ==
    /\ pc = "except"
    /\ events' = Append(events, RunError("range() arg 3 must not be zero"))
    /\ pc' = "finally"
    /\ UNCHANGED <<input_files, batch_size, is_cancelled, mutex, files, dirs, outputs,
                   total, index, batch, i, pos, subtitle_index, caller,
                   started, opened, cancel_at, history>>

\* run(): finally
RunFinally ==
    /\ pc = "finally"
    /\ events' = Append(events, Finished)
    /\ pc' = "done"
    /\ UNCHANGED <<input_files, batch_size, is_cancelled, mutex, files, dirs, outputs,
                   total, index, batch, i, pos, subtitle_index, caller,
                   started, opened, cancel_at, history>>

\* the worker is between two jobs: one has ended and the next has not begun
BetweenJobs == started >= 1 /\ pc \in {"job_head", "batch_head", "batch_check"}

\* cancel() is invoked on the running worker and takes the lock
CancelLock ==
    /\ caller = "idle"
    /\ pc \notin {"new", "done"}
    /\ mutex = "free"
    /\ mutex' = "caller"
    /\ caller' = "locked"
    /\ cancel_at' = [cancel_at EXCEPT !.invoked = TRUE, !.started = started,
                                      !.between = BetweenJobs]
    /\ UNCHANGED <<input_files, batch_size, is_cancelled, files, dirs, outputs, pc,
                   total, index, batch, i, pos, subtitle_index, events,
                   started, opened, history>>

\* a cancel() that returns without releasing the mutex
CancelSetKeepsLock ==
    /\ caller = "locked"
    /\ is_cancelled' = TRUE
    /\ caller' = "returned"
    /\ cancel_at' = [cancel_at EXCEPT !.returned = TRUE, !.upto = started,
                                      !.between = @ /\ BetweenJobs /\ started = cancel_at.started]
    /\ UNCHANGED <<input_files, batch_size, mutex, files, dirs, outputs, pc,
                   total, index, batch, i, pos, subtitle_index, events,
                   started, opened, history>>

\* cancel() sets the flag and returns
CancelSet ==
    /\ caller = "locked"
    /\ is_cancelled' = TRUE
    /\ mutex' = "free"
    /\ caller' = "returned"
    /\ cancel_at' = [cancel_at EXCEPT !.returned = TRUE, !.upto = started,
                                      !.between = @ /\ BetweenJobs /\ started = cancel_at.started]
    /\ UNCHANGED <<input_files, batch_size, files, dirs, outputs, pc,
                   total, index, batch, i, pos, subtitle_index, events,
                   started, opened, history>>

Next ==
    \/ RunBegin
    \/ BatchLock
    \/ BatchesDone
    \/ BatchCheck
    \/ BatchEnd
    \/ CheckJob
    \/ OpenFiles
    \/ LineLock
    \/ LineCheck
    \/ EndOfFile
    \/ EmitProgress
    \/ RunExcept
    \/ RunFinally
    \/ CancelLock
    \/ CancelSet

Spec == Init /\ [][Next]_vars

(***************************************************************************)
(* Properties of the job runner.                                           *)
(***************************************************************************)
\* the position in input_files of the job an event is about
JobOf(label) == CHOOSE n \in 1..Len(FileNames) : FileNames[n] = label

\* the positions in `events` of the Progress and JobError events
JobEventAt == {e \in 1..Len(events) : events[e].type # "finished" /\ events[e].label # ""}

\* the job cannot succeed on this disk
JobFails(n) ==
    LET file == files[input_files[n].input_path]
        dir  == dirs[Dirname(input_files[n].output_path)]
    IN  \/ ~file.exists
        \/ ~dir.exists /\ ~dir.creatable
        \/ ~dir.writable
        \/ ~file.readable
        \/ file.fails

\* C1: when cancel() runs from invocation to return after job k has ended and
\* before job k+1 has begun, no Progress and no JobError event is ever
\* emitted for a job after k.
C1_NoEventAfterCancelBetweenJobs ==
    (cancel_at.returned /\ cancel_at.between) =>
        \A e \in JobEventAt : JobOf(events[e].label) <= cancel_at.started

\* C2: a job that had not been started when cancel() returned never has its
\* input opened nor its output created or truncated.
C2_NoFileOpenedAfterCancel ==
    cancel_at.returned => \A n \in opened : n <= cancel_at.upto

\* C3 (as stated): in an uncancelled run that has ended, every submitted job
\* was processed once and has exactly one event, JobError when it cannot
\* succeed and Progress otherwise, whatever the batch size.
C3_OneEventPerJob_AnyBatchSize ==
    (pc = "done" /\ caller = "idle") =>
        /\ started = Len(input_files)
        /\ Len(events) = Len(input_files) + 1
        /\ \A n \in 1..Len(input_files) :
              /\ events[n].label = Basename(input_files[n].input_path)
              /\ events[n].type = IF JobFails(n) THEN "error" ELSE "progress"

\* C3 (amended): the same, for runs with a batch size of at least 1.
C3_OneEventPerJob ==
    (pc = "done" /\ caller = "idle" /\ batch_size >= 1) =>
        /\ started = Len(input_files)
        /\ Len(events) = Len(input_files) + 1
        /\ \A n \in 1..Len(input_files) :
              /\ events[n].label = Basename(input_files[n].input_path)
              /\ events[n].type = IF JobFails(n) THEN "error" ELSE "progress"

\* an uncancelled run of three jobs in batches of two has ended; the second
\* job failed and the third was still processed
C3_Witness ==
    /\ pc = "done" /\ caller = "idle" /\ batch_size = 2
    /\ Len(input_files) = 3
    /\ events[1].type = "progress" /\ events[2].type = "error" /\ events[3].type = "progress"
    /\ events[3].label = "c.txt"

\* C4: Done is emitted exactly once per run and is the last event: before the
\* run has ended there is no Done, and once it has ended Done is the last
\* event and occurs nowhere else.
C4_DoneOnceAndLast ==
    /\ pc # "done" => \A e \in 1..Len(events) : events[e].type # "finished"
    /\ pc = "done" =>
          /\ events # <<>>
          /\ events[Len(events)] = Finished
          /\ \A e \in 1..(Len(events) - 1) : events[e].type # "finished"

\* a run whose batch loop raised (batch size 0) has ended
C4_Witness ==
    /\ pc = "done" /\ batch_size = 0 /\ Len(input_files) > 0
    /\ events = <<RunError("range() arg 3 must not be zero"), Finished>>

\* C5: for a batch size of at least 1, the Progress and JobError events are
\* in submission order: no event of a later job precedes one of an earlier job.
C5_EventsInSubmissionOrder ==
    batch_size >= 1 =>
        \A e1, e2 \in JobEventAt :
            e1 < e2 => JobOf(events[e1].label) <= JobOf(events[e2].label)

\* three jobs in two batches have all emitted their event
C5_Witness ==
    /\ batch_size = 2 /\ Len(input_files) = 3
    /\ Len(events) = 3 /\ JobEventAt = {1, 2, 3}
    /\ events[1].label = "a.txt" /\ events[3].label = "c.txt"

(***************************************************************************)
(* _convert_file on its own: one call, on a file whose lines put a         *)
(* timestamp group, or something close to one, between other tokens.       *)
(***************************************************************************)
MaxPad == 3

PadTokens == {LBracket, RBracket, Blank, Letter}
Pads == UNION {[1..n -> PadTokens] : n \in 0..MaxPad}

NoFraction == <<"0", ":", "0", "1">>

Cores ==
    {<<>>,
     <<LBracket, TimeTokens[1], Blank, Arrow, Blank, TimeTokens[2], RBracket>>,
     <<LBracket, TimeTokens[2], Arrow, TimeTokens[7], RBracket>>,
     <<LBracket, TimeTokens[5], Blank, Blank, Arrow, TimeTokens[6], RBracket>>,
     <<LBracket, TimeTokens[6], Arrow, Blank, TimeTokens[5], RBracket>>,
     <<LBracket, TimeTokens[3], Blank, Arrow, Blank, TimeTokens[4], RBracket>>,
     <<LBracket, TimeTokens[1], Arrow, TimeTokens[1], RBracket>>,
     <<LBracket, TimeTokens[1], Arrow, TimeTokens[2]>>,
     <<LBracket, TimeTokens[1], Blank, TimeTokens[2], RBracket>>,
     <<LBracket, Blank, TimeTokens[1], Arrow, TimeTokens[2], RBracket>>,
     <<LBracket, NoFraction, Arrow, TimeTokens[2], RBracket>>}

\* a core with at most MaxPad tokens around it
TestLines ==
    UNION {{a \o c \o b : b \in {t \in Pads : Len(a) + Len(t) <= MaxPad}, c \in Cores} : a \in Pads}

\* the file holds the line between two lines that each make a cue
Bodies(line) == {<<CueLine1, line, CueLine2>>}

\* the worker is at the call of _convert_file for the only job of its run,
\* a file with the lines `body`
ConvertCall(body) ==
        /\ input_files = <<FileInfo(1)>>
        /\ batch_size = DefaultBatchSize
        /\ is_cancelled = FALSE
        /\ mutex = "free"
        /\ files = [path \in {FileInfo(1).input_path} |->
                      [exists |-> TRUE, readable |-> TRUE, lines |-> body, fails |-> FALSE]]
        /\ dirs = [d \in {DirNames[1]} |-> GoodDir]
        /\ outputs = [path \in {FileInfo(1).output_path} |-> [exists |-> FALSE, data |-> <<>>]]
        /\ pc = "convert"
        /\ total = 1
        /\ index = 0
        /\ batch = <<FileInfo(1)>>
        /\ i = 0
        /\ pos = 0
        /\ subtitle_index = 1
        /\ events = <<>>
        /\ caller = "idle"
        /\ started = 1
        /\ opened = {}
        /\ cancel_at = NoCancel
        /\ history = <<>>

InitConvert == \E line \in TestLines : \E body \in Bodies(line) : ConvertCall(body)

NextConvert ==
    \/ OpenFiles
    \/ LineLock
    \/ LineCheck
    \/ EndOfFile

ConvertSpec == InitConvert /\ [][NextConvert]_vars

(***************************************************************************)
(* Properties of the conversion of a file.                                 *)
(***************************************************************************)
\* the entries of `history` that wrote a cue to the output of job n
CuesOf(n) == {h \in 1..Len(history) : history[h].job = n /\ history[h].made.out # <<>>}

\* C6: at every moment the output of every job holds one four-line record
\* per line of that job that produced a cue, and the index lines of the
\* records are 1, 2, ..., n in order, whatever was converted before.
C6_CueIndicesContiguous ==
    \A n \in 1..Len(input_files) :
        LET data == outputs[input_files[n].output_path].data
        IN  /\ Len(data) = 4 * Cardinality(CuesOf(n))
            /\ \A m \in 1..Cardinality(CuesOf(n)) : data[4 * (m - 1) + 1] = Digits(m)

\* the first two jobs each skipped lines and wrote two cues
C6_Witness ==
    /\ Len(input_files) >= 2
    /\ \A n \in 1..2 :
          /\ Len(files[input_files[n].input_path].lines) = 3
          /\ Len(outputs[input_files[n].output_path].data) = 8
          /\ outputs[input_files[n].output_path].data[5] = <<"2">>

\* the line holds "[", a timestamp, blanks, "->", blanks, a timestamp, "]"
HasTimestampGroup(line) ==
    \E p \in 1..(Len(line) - 1) :
        /\ line[p] = LBracket
        /\ IsTimestamp(line[p + 1])
        /\ \E a \in (p + 2)..Len(line) :
              /\ line[a] = Arrow
              /\ \A j \in (p + 2)..(a - 1) : line[j] = Blank
              /\ \E e \in (a + 1)..(Len(line) - 1) :
                    /\ IsTimestamp(line[e])
                    /\ \A j \in (a + 1)..(e - 1) : line[j] = Blank
                    /\ line[e + 1] = RBracket

\* C7: a line without a bracketed timestamp group produces no cue: nothing is
\* written for it and subtitle_index is left as it was.
C7_NoTimestampNoCue ==
    \A h \in 1..Len(history) :
        ~HasTimestampGroup(history[h].line) =>
            /\ history[h].made.out = <<>>
            /\ history[h].made.index = history[h].before
            /\ Len(outputs[input_files[history[h].job].output_path].data) % 4 = 0

\* a line with a bracket and two timestamps, but no closed group, was converted
C7_Witness ==
    \E h \in 1..Len(history) :
        /\ ~HasTimestampGroup(history[h].line)
        /\ Len(history[h].line) > 2
        /\ \E p \in 1..(Len(history[h].line) - 1) :
              /\ history[h].line[p] = LBracket
              /\ IsTimestamp(history[h].line[p + 1])
        /\ history[h].line[Len(history[h].line)] = Letter
        /\ history[h].before = 2

\* the line has a timestamp group whose parsed start is not before its end
StartNotBeforeEnd(line) ==
    LET found == TimeMatch(line)
    IN  /\ found.found
        /\ Seconds(found.group1).ok
        /\ Seconds(found.group2).ok
        /\ ~FloatLess(Seconds(found.group1).val, Seconds(found.group2).val)

\* C8: a line whose parsed start time is greater than or equal to its end
\* time produces no cue and no error signal, and leaves subtitle_index as it
\* was: between two cue lines, the cue after it is numbered 2.
C8_StartNotBeforeEndSkipped ==
    /\ \A h \in 1..Len(history) :
          StartNotBeforeEnd(history[h].line) =>
              /\ history[h].made.out = <<>>
              /\ ~history[h].made.error
              /\ history[h].made.index = history[h].before
    /\ LET lines == files[input_files[1].input_path].lines
           data  == outputs[input_files[1].output_path].data
       IN  (Len(lines) = 3 /\ pos = 3 /\ StartNotBeforeEnd(lines[2])) =>
              /\ Len(data) = 8
              /\ data[1] = <<"1">>
              /\ data[5] = <<"2">>
              /\ \A e \in 1..Len(events) : events[e].type # "error"

\* a line with start = end and a text, between two cue lines, was converted
C8_Witness ==
    /\ pos = 3
    /\ Len(history) = 3
    /\ StartNotBeforeEnd(history[2].line)
    /\ TimeMatch(history[2].line).group1 = TimeMatch(history[2].line).group2
    /\ Strip(SubBrackets(history[2].line)) # <<>>
    /\ history[3].made.out # <<>>

\* C9: the text of a cue is the line without its bracketed tokens, trimmed:
\* it is not empty, begins and ends with a non-blank character and has no
\* "[" with a "]" after it; a line whose text is empty makes no cue and
\* leaves subtitle_index as it was.
C9_CueTextStripped ==
    \A h \in 1..Len(history) :
        LET line == history[h].line
            made == history[h].made
        IN  /\ made.out # <<>> =>
                  LET text == made.out[3]
                  IN  /\ text = Flatten(Strip(SubBrackets(line)))
                      /\ text # <<>>
                      /\ text[1] # " "
                      /\ text[Len(text)] # " "
                      /\ ~ \E a, b \in 1..Len(text) : a < b /\ text[a] = "[" /\ text[b] = "]"
            /\ Strip(SubBrackets(line)) = <<>> =>
                  /\ made.out = <<>>
                  /\ made.index = history[h].before

\* a cue was made of a line with a "]" before and a "[" after its timestamps
C9_Witness ==
    \E h \in 1..Len(history) :
        /\ history[h].made.out # <<>>
        /\ history[h].made.out[3] = <<"]", "a", "[">>

\* m:ss.fff, with exactly three digits after the point
ThreeDigits(tok) == Len(Split(Split(tok, ":")[2], ".")[2]) = 3

\* HH:MM:SS,mmm of m:ss.fff with mmm = fff
StampOf(tok) ==
    LET whole == 60 * NatOf(Split(tok, ":")[1]) + NatOf(Split(Split(tok, ":")[2], ".")[1])
    IN  ZeroPad(Digits(whole \div 3600), 2) \o <<":">> \o
        ZeroPad(Digits((whole \div 60) % 60), 2) \o <<":">> \o
        ZeroPad(Digits(whole % 60), 2) \o <<",">> \o Split(Split(tok, ":")[2], ".")[2]

\* C10: a cue is written as four lines, its index, its times, its text and a
\* blank line, and for timestamps with three fractional digits the
\* millisecond field of each time is those three digits.
C10_RecordAndMilliseconds ==
    \A h \in 1..Len(history) :
        LET made  == history[h].made
            found == TimeMatch(history[h].line)
        IN  made.out # <<>> =>
                /\ Len(made.out) = 4
                /\ made.out[1] = Digits(history[h].before)
                /\ made.out[4] = <<>>
                /\ (ThreeDigits(found.group1) /\ ThreeDigits(found.group2)) =>
                       made.out[2] = StampOf(found.group1) \o <<" ", "-", "-", ">", " ">>
                                        \o StampOf(found.group2)

(***************************************************************************)
(* _convert_file on one cue line, over timestamps of every shape: the      *)
(* times that _time_to_seconds returns and _format_time writes.            *)
(***************************************************************************)
MaxFrac == 3

StampMinutes == {<<"0">>, <<"1", "5", "0", "0">>}
StampSeconds == {<<"0", "0">>, <<"5", "9">>}
FracDigits   == {"0", "1", "9"}
Fracs        == UNION {[1..n -> FracDigits] : n \in 1..MaxFrac}

\* m:ss.f
Stamp(m, s, f) == m \o <<":">> \o s \o <<".">> \o f

\* the line "[start -> end] a"
StampLine(start, end) == <<LBracket, start, Blank, Arrow, Blank, end, RBracket, Blank, Letter>>

\* the two timestamps are in the same second and differ at most in the last
\* digit of the fraction
InitTime ==
    \E m \in StampMinutes : \E s \in StampSeconds : \E f \in Fracs : \E d \in FracDigits :
        ConvertCall(<<StampLine(Stamp(m, s, f), Stamp(m, s, [f EXCEPT ![Len(f)] = d]))>>)

TimeSpec == InitTime /\ [][NextConvert]_vars

(***************************************************************************)
(* Properties of the times of a cue.                                       *)
(***************************************************************************)
\* the entries of `history` that wrote a cue
CueAt == {h \in 1..Len(history) : history[h].made.out # <<>>}

\* the start (side 1) or end (side 2) time of the cue of entry h, as parsed
CueTime(h, side) ==
    LET found == TimeMatch(history[h].line)
    IN  TimeToSeconds(IF side = 1 THEN found.group1 ELSE found.group2).val

\* the same time as written in the record, HH:MM:SS,mmm
CueStamp(h, side) == Split(history[h].made.out[2], " ")[IF side = 1 THEN 1 ELSE 3]

\* the numbers written in HH:MM:SS,mmm
StampFields(stamp) ==
    LET parts == Split(stamp, ":")
        tail  == Split(parts[3], ",")
    IN  [HH |-> NatOf(parts[1]), MM |-> NatOf(parts[2]),
         SS |-> NatOf(tail[1]), mmm |-> NatOf(tail[2])]

\* the milliseconds a written time stands for
StampMillis(stamp) ==
    LET F == StampFields(stamp)
    IN  F.HH * 3600000 + F.MM * 60000 + F.SS * 1000 + F.mmm

\* the float truncated to whole milliseconds, exactly: floor(1000 * f)
ExactMillis(f) == f.ip * 1000 + MulBits(f.fb, 1000).carry

\* C11: the time written for a cue is HH:MM:SS,mmm with MM and SS in 0..59,
\* mmm in 0..999 and HH not wrapped, and it stands for the parsed time
\* truncated to whole milliseconds.
C11_FormatTimeTruncates ==
    \A h \in CueAt : \A side \in {1, 2} :
        LET F == StampFields(CueStamp(h, side))
        IN  /\ F.MM \in 0..59
            /\ F.SS \in 0..59
            /\ F.mmm \in 0..999
            /\ StampMillis(CueStamp(h, side)) = ExactMillis(CueTime(h, side))

\* C12: the start written for a cue is before the end written for it.
C12_FormattedStartBeforeEnd ==
    \A h \in CueAt : StampMillis(CueStamp(h, 1)) < StampMillis(CueStamp(h, 2))

\* C13 (as stated): _time_to_seconds applied to the written time of a cue
\* returns a value within 1 ms of the parsed time.
C13_RoundTrip ==
    \A h \in CueAt : \A side \in {1, 2} :
        LET back == TimeToSeconds(CueStamp(h, side))
        IN  /\ back.ok
            /\ ExactMillis(back.val) - ExactMillis(CueTime(h, side)) \in {-1, 0, 1}

\* C13 (amended): _time_to_seconds rejects the written time of a cue (it is
\* not minutes:seconds), and the time it stands for, read as hours, minutes,
\* seconds and milliseconds, is within 1 ms of the parsed time: it is the
\* parsed time truncated to milliseconds, or 1 ms more.
C13_StampWithinOneMs ==
    \A h \in CueAt : \A side \in {1, 2} :
        /\ ~TimeToSeconds(CueStamp(h, side)).ok
        /\ StampMillis(CueStamp(h, side)) - ExactMillis(CueTime(h, side)) \in {0, 1}

\* a cue was written whose start stands for 1 ms more than the parsed start
\* truncated, and whose end for the parsed end truncated
C13_Witness ==
    \E h \in CueAt :
        /\ StampMillis(CueStamp(h, 1)) = ExactMillis(CueTime(h, 1)) + 1
        /\ StampMillis(CueStamp(h, 2)) = ExactMillis(CueTime(h, 2))

(***************************************************************************)
(* Properties of whole conversions.                                        *)
(***************************************************************************)
\* what an uncancelled conversion numbered from `first` writes for `lines`
RECURSIVE WrittenFor(_, _)
WrittenFor(lines, first) ==
    IF lines = <<>> THEN <<>>
    ELSE LET made == ConvertLine(Head(lines), first)
         IN  made.out \o WrittenFor(Tail(lines), made.index)

\* what a whole file of the runs' disks makes, computed once per body
KnownBodies == {kind.file.lines : kind \in JobKinds}
WrittenMemo == [body \in KnownBodies |-> WrittenFor(body, 1)]
Written(lines) ==
    IF lines \in KnownBodies THEN WrittenMemo[lines] ELSE WrittenFor(lines, 1)

\* the jobs for which Progress has been emitted
Succeeded == {n \in 1..Len(input_files) :
                \E e \in 1..Len(events) :
                    /\ events[e].type = "progress"
                    /\ events[e].label = Basename(input_files[n].input_path)}

\* C14: in an uncancelled run the output of a converted job is what its
\* input lines alone determine, numbered from 1, so two jobs with the same
\* input lines have the same output, whatever was converted before them.
C14_OutputDependsOnLinesOnly ==
    caller = "idle" =>
        /\ \A n \in Succeeded :
              outputs[input_files[n].output_path].data =
                  Written(files[input_files[n].input_path].lines)
        /\ \A n1, n2 \in Succeeded :
              files[input_files[n1].input_path].lines = files[input_files[n2].input_path].lines
                  => outputs[input_files[n1].output_path].data
                         = outputs[input_files[n2].output_path].data

\* two jobs with the same lines were converted one after the other
C14_Witness ==
    /\ caller = "idle" /\ pc = "done"
    /\ {1, 2} \subseteq Succeeded
    /\ files[input_files[1].input_path].lines = files[input_files[2].input_path].lines
    /\ Len(outputs[input_files[2].output_path].data) = 8

\* C15: every Progress event carries the base name of its job's input and
\* percent = floor(ordinal / total * 100), with the job's 1-based position
\* in the submitted list as ordinal, so that the last job reports 100.
C15_PercentOfOrdinal ==
    \A e \in 1..Len(events) :
        events[e].type = "progress" =>
            /\ \E n \in 1..Len(input_files) : events[e].label = Basename(input_files[n].input_path)
            /\ events[e].percent = (JobOf(events[e].label) * 100) \div Len(input_files)

(***************************************************************************)
(* Lines that are skipped.                                                 *)
(***************************************************************************)
\* the lines converted so far that wrote nothing
SkippedAt == {h \in 1..Len(history) : history[h].made.out = <<>>}

\* C16: a line that is skipped (no timestamp group or a malformed one, an
\* interval with start >= end, or no text left after stripping) emits no
\* error event and leaves subtitle_index alone, and the conversion goes on:
\* the file is read to its end and its later lines still make their cues.
C16_SkippedLinesAreSilent ==
    /\ \A e \in 1..Len(events) : events[e].type # "error"
    /\ \A h \in SkippedAt : ~history[h].made.error /\ history[h].made.index = history[h].before
    /\ Len(history) = pos
    /\ pc = "progress" =>
          /\ pos = Len(files[file_info.input_path].lines)
          /\ history[pos].made.out # <<>>
          /\ Len(outputs[file_info.output_path].data) = 4 * (pos - Cardinality(SkippedAt))

\* a line with a malformed timestamp (no fraction) between its brackets has
\* been skipped, and the line after it has made its cue
C16_Witness ==
    /\ pc = "progress"
    /\ 2 \in SkippedAt
    /\ history[3].made.out # <<>>
    /\ \E p \in 2..Len(history[2].line) :
          history[2].line[p - 1] = LBracket /\ history[2].line[p] = NoFraction

(***************************************************************************)
(* The cancellation flag and its lock.                                     *)
(***************************************************************************)
\* the worker is at a read of _is_cancelled; cancel() is at its write
WorkerReads  == pc \in {"batch_check", "line_check"}
CallerWrites == caller = "locked"

\* C17: the run loop reads the flag and cancel() writes it only while
\* holding the mutex, so a read and a write never overlap; only cancel()
\* changes the flag, and once TRUE it stays TRUE for the rest of the run.
C17_FlagUnderLock ==
    /\ [](/\ WorkerReads => mutex = "worker"
          /\ CallerWrites => mutex = "caller"
          /\ ~(WorkerReads /\ CallerWrites))
    /\ [][/\ is_cancelled => is_cancelled'
          /\ is_cancelled' # is_cancelled => CallerWrites /\ mutex = "caller" /\ caller' = "returned"]_vars

\* cancel() holds the lock for its write while the worker has a line to
\* check and waits for the lock
C17_Witness ==
    /\ CallerWrites
    /\ mutex = "caller"
    /\ pc = "line_head"
    /\ pos < Len(files[file_info.input_path].lines)

(***************************************************************************)
(* The caller's job list.  _start_conversion_worker constructs the worker  *)
(* as ConversionWorker(self.files_to_convert) and __init__ keeps the       *)
(* argument itself (self.input_files = input_files): input_files is the    *)
(* caller's list object and its FileInfo objects are the caller's objects. *)
(* The caller's handlers change that list while the worker runs.           *)
(***************************************************************************)
\* the path the caller picks in the save dialog
AltPath == [dir |-> DirNames[1], name |-> "z.srt"]

\* the worker is constructed on n jobs; the disk also holds a convertible
\* file the caller has not added yet
InitShared ==
    \E n \in 1..(MaxJobs - 1) : \E kinds \in [1..n -> JobKinds] : \E size \in BatchSizes :
        /\ input_files = [k \in 1..n |-> FileInfo(k)]
        /\ batch_size = size
        /\ is_cancelled = FALSE
        /\ mutex = "free"
        /\ files = [path \in {FileInfo(k).input_path : k \in 1..(n + 1)} |->
                      IF path = FileInfo(n + 1).input_path
                      THEN [exists |-> TRUE, readable |-> TRUE, lines |-> <<CueLine1>>, fails |-> FALSE]
                      ELSE kinds[CHOOSE k \in 1..n : FileInfo(k).input_path = path].file]
        /\ dirs = [d \in {DirNames[k] : k \in 1..(n + 1)} |->
                      IF d = DirNames[n + 1] THEN GoodDir
                      ELSE kinds[CHOOSE k \in 1..n : DirNames[k] = d].dir]
        /\ outputs = [path \in {FileInfo(k).output_path : k \in 1..(n + 1)} |->
                      [exists |-> FALSE, data |-> <<>>]]
        /\ pc = "new"
        /\ total = 0
        /\ index = 0
        /\ batch = <<>>
        /\ i = 0
        /\ pos = 0
        /\ subtitle_index = 1
        /\ events = <<>>
        /\ caller = "idle"
        /\ started = 0
        /\ opened = {}
        /\ cancel_at = NoCancel
        /\ history = <<>>

\* the worker thread is running
Running == pc \notin {"new", "done"}

\* _restart_conversion: self.files_to_convert.clear()
CallerClears ==
    /\ Running
    /\ input_files # <<>>
    /\ input_files' = <<>>
    /\ UNCHANGED <<batch_size, is_cancelled, mutex, files, dirs, outputs, pc,
                   total, index, batch, i, pos, subtitle_index, events, caller,
                   started, opened, cancel_at, history>>

\* _add_new_files: self.files_to_convert.append(file_info), for a file
\* that _is_duplicate_file does not find in the list
CallerAppends ==
    /\ Running
    /\ \A k \in 1..Len(input_files) : input_files[k].input_path # FileInfo(total + 1).input_path
    /\ input_files' = Append(input_files, FileInfo(total + 1))
    /\ UNCHANGED <<batch_size, is_cancelled, mutex, files, dirs, outputs, pc,
                   total, index, batch, i, pos, subtitle_index, events, caller,
                   started, opened, cancel_at, history>>

\* _select_output_file: self.files_to_convert[0].output_path = file_name.
\* The FileInfo object is changed, wherever it is referenced: in the list
\* and in the slice of it that _process_batch iterates over.
CallerSetsOutputPath ==
    /\ Running
    /\ input_files # <<>>
    /\ input_files[1].output_path # AltPath
    /\ LET Changed(list) ==
               [k \in 1..Len(list) |->
                   IF list[k].input_path = input_files[1].input_path
                   THEN [list[k] EXCEPT !.output_path = AltPath]
                   ELSE list[k]]
       IN  /\ input_files' = Changed(input_files)
           /\ batch' = Changed(batch)
    /\ outputs' = [path \in DOMAIN outputs \cup {AltPath} |->
                      IF path \in DOMAIN outputs THEN outputs[path]
                      ELSE [exists |-> FALSE, data |-> <<>>]]
    /\ UNCHANGED <<batch_size, is_cancelled, mutex, files, dirs, pc,
                   total, index, i, pos, subtitle_index, events, caller,
                   started, opened, cancel_at, history>>

NextShared ==
    \/ RunBegin
    \/ BatchLock
    \/ BatchesDone
    \/ BatchCheck
    \/ BatchEnd
    \/ CheckJob
    \/ OpenFiles
    \/ LineLock
    \/ LineCheck
    \/ EndOfFile
    \/ EmitProgress
    \/ RunExcept
    \/ RunFinally
    \/ CallerClears
    \/ CallerAppends
    \/ CallerSetsOutputPath

SharedSpec == InitShared /\ [][NextShared]_vars

\* C18: whatever the caller does to its list after submission, the worker
\* processes the jobs that were submitted (the first `total` jobs), in
\* their order, all of them when it is not cancelled and batch_size >= 1,
\* and writes each job's output to the path the job was submitted with.
C18_SubmittedListByValue ==
    Running \/ pc = "done" =>
        /\ \A e \in JobEventAt : JobOf(events[e].label) \in 1..total
        /\ \A e1, e2 \in JobEventAt : e1 < e2 => JobOf(events[e1].label) < JobOf(events[e2].label)
        /\ \A path \in DOMAIN outputs :
              outputs[path].exists => \E k \in 1..total : path = FileInfo(k).output_path
        /\ pc = "done" /\ ~is_cancelled /\ batch_size >= 1 =>
              \A k \in 1..total : \E e \in JobEventAt : JobOf(events[e].label) = k

(***************************************************************************)
(* The run as the job list and the disk alone determine it: the jobs one   *)
(* after the other, with no batches.                                       *)
(***************************************************************************)
\* the event of job n
ExpectedEvent(n) ==
    LET file  == files[input_files[n].input_path]
        dir   == dirs[Dirname(input_files[n].output_path)]
        label == Basename(input_files[n].input_path)
    IN  IF ~file.exists THEN JobError(label, "not found")
        ELSE IF ~dir.exists /\ ~dir.creatable THEN JobError(label, "makedirs")
        ELSE IF ~dir.writable THEN JobError(label, "no write permission")
        ELSE IF ~file.readable THEN JobError(label, "open")
        ELSE IF file.fails THEN JobError(label, "read")
        ELSE ProgressEvent(Percent(n - 1, Len(input_files)), label)

\* the output file of job n
ExpectedOutput(n) ==
    LET file == files[input_files[n].input_path]
        dir  == dirs[Dirname(input_files[n].output_path)]
    IN  IF file.exists /\ dir.exists /\ dir.writable /\ file.readable
        THEN [exists |-> TRUE, data |-> Written(file.lines)]
        ELSE [exists |-> FALSE, data |-> <<>>]

\* C19: an uncancelled run that has ended has emitted the same events, with
\* the same percents and in the same order, and left the same output
\* files, for every batch_size >= 1: those of the jobs taken one by one.
C19_BatchSizeHasNoMeaning ==
    (pc = "done" /\ caller = "idle" /\ batch_size >= 1) =>
        /\ events = [n \in 1..Len(input_files) |-> ExpectedEvent(n)] \o <<Finished>>
        /\ \A n \in 1..Len(input_files) :
              outputs[input_files[n].output_path] = ExpectedOutput(n)

\* three jobs, of which one fails and the last succeeds, were run in
\* batches smaller than the list
C19_Witness ==
    /\ pc = "done" /\ caller = "idle"
    /\ batch_size \in 1..2
    /\ Len(input_files) = 3
    /\ \E n \in 1..2 : ExpectedEvent(n).type = "error"
    /\ events[3] = ProgressEvent(66, "c.txt")
    /\ Len(outputs[input_files[3].output_path].data) = 8

(***************************************************************************)
(* Cancellation inside a file.                                             *)
(***************************************************************************)
IsPrefix(a, b) == Len(a) <= Len(b) /\ a = SubSeq(b, 1, Len(a))

\* C20: once cancel() has set the flag no further line is converted and no
\* output file grows, and every output file holds whole four-line records
\* only, which are the first records of the uncancelled conversion of its
\* input.
C20_CancelAtLineGranularity ==
    /\ [](\A n \in opened :
             LET data == outputs[input_files[n].output_path].data
             IN  /\ Len(data) % 4 = 0
                 /\ IsPrefix(data, Written(files[input_files[n].input_path].lines)))
    /\ [][is_cancelled =>
             /\ history' = history
             /\ \A path \in DOMAIN outputs :
                   Len(outputs'[path].data) <= Len(outputs[path].data)]_vars

\* cancel() came while a file was being converted: the run has ended with
\* the first of the file's two cues written and its last line never
\* converted
C20_Witness ==
    /\ pc = "done"
    /\ is_cancelled
    /\ \E n \in opened :
          /\ Len(outputs[input_files[n].output_path].data) = 4
          /\ Len(Written(files[input_files[n].input_path].lines)) = 8
          /\ \A h \in 1..Len(history) : history[h].job = n => h < 3

(***************************************************************************)
(* Progress events and the jobs they are about.                            *)
(***************************************************************************)
\* the lines of job n that have been converted
LinesDone(n) == Cardinality({h \in 1..Len(history) : history[h].job = n})

\* C21: a Progress event is emitted for a job only when every line of its
\* input has been processed and written; a job whose conversion was cut
\* short by cancellation has no Progress event.
C21_ProgressOnlyOnSuccess ==
    \A e \in 1..Len(events) :
        events[e].type = "progress" =>
            LET n == JobOf(events[e].label)
            IN  /\ LinesDone(n) = Len(files[input_files[n].input_path].lines)
                /\ outputs[input_files[n].output_path].data
                       = Written(files[input_files[n].input_path].lines)

(***************************************************************************)
(* What a rejected job leaves on the disk.                                 *)
(***************************************************************************)
\* the jobs that have a JobError with this message
RejectedFor(msg) ==
    {JobOf(events[e].label) : e \in {x \in JobEventAt : events[x].type = "error" /\ events[x].msg = msg}}

\* C22: the input is looked for before the output directory is made, and
\* the directory is tested before the files are opened: a job rejected for
\* its missing input has no output directory made and no output file made
\* or truncated, and a job rejected for lack of write permission has no
\* output file opened.
C22_RejectedJobLeavesNoOutput ==
    /\ \A n \in RejectedFor("not found") :
          /\ ~files[input_files[n].input_path].exists
          /\ ~dirs[Dirname(input_files[n].output_path)].exists
          /\ n \notin opened
          /\ ~outputs[input_files[n].output_path].exists
    /\ \A n \in RejectedFor("no write permission") :
          /\ ~dirs[Dirname(input_files[n].output_path)].writable
          /\ n \notin opened
          /\ ~outputs[input_files[n].output_path].exists
    /\ \A n \in opened :
          /\ files[input_files[n].input_path].exists
          /\ dirs[Dirname(input_files[n].output_path)].exists
          /\ dirs[Dirname(input_files[n].output_path)].writable

\* the run has ended with one job rejected for its missing input, one for
\* lack of write permission and one converted
C22_Witness ==
    /\ pc = "done"
    /\ RejectedFor("not found") # {}
    /\ RejectedFor("no write permission") # {}
    /\ opened # {}

(***************************************************************************)
(* cancel() before the worker thread is started, and at the start of a     *)
(* batch.                                                                  *)
(***************************************************************************)
\* cancel() on a worker whose thread has not been started: nothing else
\* uses the mutex yet, so the lock, the write and the unlock are one step
CancelBeforeRun ==
    /\ pc = "new"
    /\ caller = "idle"
    /\ mutex = "free"
    /\ is_cancelled' = TRUE
    /\ caller' = "returned"
    /\ cancel_at' = [cancel_at EXCEPT !.invoked = TRUE, !.returned = TRUE]
    /\ UNCHANGED <<input_files, batch_size, mutex, files, dirs, outputs, pc,
                   total, index, batch, i, pos, subtitle_index, events,
                   started, opened, history>>

NextEarly == Next \/ CancelBeforeRun

EarlySpec == Init /\ [][NextEarly]_vars

\* the flag is set and the worker has no job in hand: it has not been
\* started, is at the head of the batch loop or at its check, has ended
\* the last job of its batch, or has left the loop
StoppedAtBatch ==
    /\ is_cancelled
    /\ \/ pc \in {"new", "batch_head", "batch_check", "except", "finally", "done"}
       \/ pc = "job_head" /\ i = Len(batch)

\* from then on no job is begun, no file is opened or written, and the
\* only event still emitted is Done
NothingMoreBut(last) ==
    /\ StoppedAtBatch'
    /\ started' = started
    /\ opened' = opened
    /\ outputs' = outputs
    /\ events' = events \/ events' = Append(events, last)

\* C23 (as stated): when cancel() has returned before the check at the
\* start of a batch, no job of that batch or of a later one is processed,
\* and cancel() before the run starts yields Done as the only event.
C23_NoBatchAfterCancel_AnyBatchSize ==
    [][StoppedAtBatch => NothingMoreBut(Finished)]_vars

\* C23: the same, for batch_size # 0.
C23_NoBatchAfterCancel ==
    [][(StoppedAtBatch /\ batch_size # 0) => NothingMoreBut(Finished)]_vars

\* the run was cancelled at the start of a batch after the first, with
\* jobs left, and has ended with the events of the earlier batches and Done
C23_Witness ==
    /\ pc = "done"
    /\ is_cancelled
    /\ batch_size >= 1
    /\ 0 < index /\ index < total
    /\ started = index
    /\ Len(events) = index + 1

(***************************************************************************)
(* Termination.  The worker thread is scheduled fairly and its file        *)
(* operations return; a cancel() that holds the mutex goes on to release   *)
(* it.  Whether and when cancel() is called is left open.                  *)
(***************************************************************************)
\* the steps of the worker thread
WorkerStep ==
    \/ RunBegin
    \/ BatchLock
    \/ BatchesDone
    \/ BatchCheck
    \/ BatchEnd
    \/ CheckJob
    \/ OpenFiles
    \/ LineLock
    \/ LineCheck
    \/ EndOfFile
    \/ EmitProgress
    \/ RunExcept
    \/ RunFinally

\* the worker is at a QMutexLocker
AtLock ==
    \/ pc = "batch_head" /\ InRange
    \/ pc = "line_head" /\ pos < Len(files[file_info.input_path].lines)

\* the worker thread can take a step: run() has not returned and the thread
\* is not waiting for the mutex
WorkerCanStep == pc # "done" /\ (AtLock => mutex = "free")

PcValues == {"new", "batch_head", "batch_check", "job_head", "convert", "line_head",
             "line_check", "progress", "except", "finally", "done"}

\* a step of the worker thread, by what it does to the worker's position
\* (every step of the worker changes pc or i, and no step of cancel() does)
WorkerMoves ==
    /\ WorkerCanStep
    /\ caller' = caller
    /\ \E next \in PcValues : pc' = next
    /\ \E k \in {0, i, i + 1} : i' = k

\* the runs whose termination is checked: up to MaxLiveJobs jobs on any
\* disk, in batches of any size up to the length of the list (0 included)
MaxLiveJobs == 2

InitLive ==
    \E n \in 0..MaxLiveJobs : \E kinds \in [1..n -> JobKinds] : \E size \in 0..MaxLiveJobs :
        InitWorker(n, kinds, size)

\* a worker that can step does step, and a cancel() that holds the mutex
\* sets the flag and releases it
FairSpec == InitLive /\ [][Next]_vars /\ WF_<<pc, i>>(WorkerMoves) /\ WF_vars(CancelSet)

\* C24: every run ends with Done emitted, whether or not cancel() is
\* called; a cancel() that has the mutex returns; and the worker holds the
\* mutex only for its read of the flag, never while it opens, reads or
\* writes a file or emits an event.
C24_RunTerminates ==
    /\ <>(pc = "done" /\ events # <<>> /\ events[Len(events)] = Finished)
    /\ (caller = "locked") ~> (caller = "returned")
    /\ [](mutex = "worker" <=> pc \in {"batch_check", "line_check"})
    /\ [][mutex = "worker" => mutex' = "free"]_vars
    /\ [][WorkerStep <=> (WorkerCanStep /\ caller' = caller /\ <<pc, i>>' # <<pc, i>>)]_vars

\* a run that was cancelled while a job was in hand has ended
C24_Witness ==
    /\ pc = "done"
    /\ batch_size >= 1
    /\ cancel_at.returned
    /\ cancel_at.upto >= 1
    /\ ~cancel_at.between

(***************************************************************************)
(* The percents of a run.                                                  *)
(***************************************************************************)
\* the positions in `events` of the Progress events
ProgressAt == {e \in 1..Len(events) : events[e].type = "progress"}

ParseSubtitleLine(line, cue_index) ==
    IF ~TimeMatch(line).found
    THEN [subtitle |-> <<>>, raised |-> FALSE]
    ELSE [subtitle |-> <<>>, raised |-> TRUE]

\* _process_subtitle_conversion(lines): what is written to outfile, and
\* whether an exception left the loop
RECURSIVE ProcessSubtitleConversion(_, _)
ProcessSubtitleConversion(lines, cue_index) ==
    IF lines = <<>> THEN [data |-> <<>>, raised |-> FALSE]
    ELSE LET made == ParseSubtitleLine(Head(lines), cue_index)
         IN  IF made.raised THEN [data |-> <<>>, raised |-> TRUE]
             ELSE LET rest == ProcessSubtitleConversion(
                                  Tail(lines),
                                  IF made.subtitle # <<>> THEN cue_index + 1 ELSE cue_index)
                  IN  [data |-> made.subtitle \o rest.data, raised |-> rest.raised]

\* C26: on the same lines the synchronous path writes what an uncancelled
\* _convert_file writes, and ends without an exception as it does.
C26_SyncPathSameOutput ==
    pc = "progress" =>
        LET sync == ProcessSubtitleConversion(files[file_info.input_path].lines, 1)
        IN  /\ ~sync.raised
            /\ sync.data = outputs[file_info.output_path].data

(***************************************************************************)
(* The window: SubtitleConverter's job list and its worker.                *)
(* input_files is self.files_to_convert, the list every worker is          *)
(* constructed on; pc = "none" while self.worker is None.  The handlers    *)
(* run on the GUI thread, one at a time; `caller` tells how far            *)
(* _start_conversion_worker has come.                                      *)
(***************************************************************************)
\* tempfile.gettempdir() + 'clipboard_text.txt'
TempPath == [dir |-> "tmp", name |-> "clipboard_text.txt"]

\* the file the open dialog offers
Selectable == <<FileInfo(1).input_path>>

\* input_file.rsplit('.', 1)[0] + '.srt'
OutputFor(input_file) ==
    [dir  |-> input_file.dir,
     name |-> SrtNames[CHOOSE k \in DOMAIN FileNames : FileNames[k] = input_file.name]]

\* the paths the save dialog returns, and the texts the clipboard holds
SaveDialogPaths == {[dir |-> "out1", name |-> "p.srt"],
                    [dir |-> "out1", name |-> "q.srt"],
                    [dir |-> "out2", name |-> "p.srt"]}
ClipboardTexts == {<<CueLine1>>, <<CueLine2>>}

Missing == [exists |-> FALSE, readable |-> FALSE, lines |-> <<>>, fails |-> FALSE]
TextFile(lines) == [exists |-> TRUE, readable |-> TRUE, lines |-> lines, fails |-> FALSE]

\* os.remove(path): the name is gone; a reader that has the file open
\* still reads its lines
Removed(file) == [file EXCEPT !.exists = FALSE, !.readable = FALSE]

\* SubtitleConverter.__init__: an empty list, no worker
InitWindow ==
    /\ input_files = <<>>
    /\ batch_size = DefaultBatchSize
    /\ is_cancelled = FALSE
    /\ mutex = "free"
    /\ files = [path \in {Selectable[1], TempPath} |->
                  IF path = Selectable[1] THEN TextFile(<<CueLine1, CueLine2>>)
                  ELSE Missing]
    /\ dirs = [d \in {"in", "out1", "out2"} |->
                  IF d = "in" THEN GoodDir
                  ELSE IF d = "out1" THEN [exists |-> FALSE, creatable |-> TRUE, writable |-> TRUE]
                  ELSE [exists |-> TRUE, creatable |-> TRUE, writable |-> FALSE]]
    /\ outputs = [path \in {OutputFor(Selectable[1])} \cup SaveDialogPaths |->
                  [exists |-> FALSE, data |-> <<>>]]
    /\ pc = "none"
    /\ total = 0
    /\ index = 0
    /\ batch = <<>>
    /\ i = 0
    /\ pos = 0
    /\ subtitle_index = 1
    /\ events = <<>>
    /\ caller = "idle"
    /\ started = 0
    /\ opened = {}
    /\ cancel_at = NoCancel
    /\ history = <<>>

\* _is_duplicate_file
IsDuplicateFile(input_file) ==
    \E k \in 1..Len(input_files) : input_files[k].input_path = input_file

\* _process_selected_files, _add_new_files: the files of the selection that
\* are not in the list yet are appended
ProcessSelectedFiles ==
    /\ caller = "idle"
    /\ \E selected \in (SUBSET DOMAIN Selectable) \ {{}} :
          LET Added(k) == IF k \in selected /\ ~IsDuplicateFile(Selectable[k])
                          THEN <<[input_path |-> Selectable[k], output_path |-> OutputFor(Selectable[k])]>>
                          ELSE <<>>
          IN  input_files' = input_files \o Added(1)
    /\ UNCHANGED <<batch_size, is_cancelled, mutex, files, dirs, outputs, pc,
                   total, index, batch, i, pos, subtitle_index, events, caller,
                   started, opened, cancel_at, history>>

\* _validate_output_file: the path is not an output of the list and, if it
\* exists on disk, the user agrees to overwrite it
ValidateOutputFile(output_file, overwrite) ==
    /\ \A k \in 1..Len(input_files) : input_files[k].output_path # output_file
    /\ outputs[output_file].exists => overwrite

\* paste_clipboard_text: the text goes to the temporary file, the output
\* directory is made and checked, and a FileInfo reading the temporary
\* file is appended.  A directory that cannot be used removes the file.
PasteClipboardText ==
    /\ caller = "idle"
    /\ \E text \in ClipboardTexts : \E output_file \in SaveDialogPaths : \E overwrite \in BOOLEAN :
          LET output_dir == Dirname(output_file)
              temp_input == TempPath
          IN  IF ~ValidateOutputFile(output_file, overwrite)
              THEN UNCHANGED <<files, dirs, input_files>>
              ELSE IF ~dirs[output_dir].exists /\ ~dirs[output_dir].creatable
              THEN /\ files' = [files EXCEPT ![temp_input] = Removed(TextFile(text))]
                   /\ UNCHANGED <<dirs, input_files>>
              ELSE /\ dirs' = [dirs EXCEPT ![output_dir].exists = TRUE]
                   /\ IF ~dirs[output_dir].writable
                      THEN /\ files' = [files EXCEPT ![temp_input] = Removed(TextFile(text))]
                           /\ UNCHANGED input_files
                      ELSE /\ files' = [files EXCEPT ![temp_input] = TextFile(text)]
                           /\ input_files' = Append(input_files,
                                  [input_path |-> temp_input, output_path |-> output_file])
    /\ UNCHANGED <<batch_size, is_cancelled, mutex, outputs, pc,
                   total, index, batch, i, pos, subtitle_index, events, caller,
                   started, opened, cancel_at, history>>

\* _start_batch_conversion on a list that is not empty, with a worker in
\* place: _start_conversion_worker calls self.worker.cancel(), which takes
\* the lock
StartCancelsWorker ==
    /\ caller = "idle"
    /\ input_files # <<>>
    /\ pc # "none"
    /\ mutex = "free"
    /\ mutex' = "caller"
    /\ caller' = "locked"
    /\ cancel_at' = [cancel_at EXCEPT !.invoked = TRUE, !.started = started,
                                      !.between = BetweenJobs]
    /\ UNCHANGED <<input_files, batch_size, is_cancelled, files, dirs, outputs, pc,
                   total, index, batch, i, pos, subtitle_index, events,
                   started, opened, history>>

\* a start that does not wait for the thread of the worker it cancelled
WorkerOnlyCancelled ==
    \/ pc = "none" /\ caller = "idle" /\ input_files # <<>>
    \/ caller = "returned"

\* the worker the window holds has been dealt with: there is none, or
\* cancel() has returned and wait() has seen its thread finish
WorkerOutOfTheWay ==
    \/ pc = "none" /\ caller = "idle" /\ input_files # <<>>
    \/ pc = "done" /\ caller = "returned"

\* _start_conversion_worker, after cancel() and wait():
\* self.worker = ConversionWorker(self.files_to_convert); self.worker.start()
StartConversionWorker ==
    /\ WorkerOutOfTheWay
    /\ batch_size' = DefaultBatchSize
    /\ is_cancelled' = FALSE
    /\ mutex' = "free"
    /\ pc' = "new"
    /\ total' = 0
    /\ index' = 0
    /\ batch' = <<>>
    /\ i' = 0
    /\ pos' = 0
    /\ subtitle_index' = 1
    /\ events' = <<>>
    /\ caller' = "idle"
    /\ started' = 0
    /\ opened' = {}
    /\ cancel_at' = NoCancel
    /\ history' = <<>>
    /\ UNCHANGED <<input_files, files, dirs, outputs>>

NextWindow ==
    \/ ProcessSelectedFiles
    \/ PasteClipboardText
    \/ StartCancelsWorker
    \/ CancelSet
    \/ StartConversionWorker
    \/ RunBegin
    \/ BatchLock
    \/ BatchesDone
    \/ BatchCheck
    \/ BatchEnd
    \/ CheckJob
    \/ OpenFiles
    \/ LineLock
    \/ LineCheck
    \/ EndOfFile
    \/ EmitProgress
    \/ RunFinally

WindowSpec == InitWindow /\ [][NextWindow]_vars

\* C27: a worker is created only when the window has no worker, or when the
\* worker it has was cancelled, has emitted Done and has left run() with
\* the lock free: no worker is running when the next one starts.
C27_OneWorkerAtATime ==
    [][(pc' = "new" /\ caller' = "idle" /\ (pc # "new" \/ caller # "idle")) =>
          \/ pc = "none"
          \/ /\ pc = "done"
             /\ is_cancelled
             /\ mutex = "free"
             /\ events # <<>>
             /\ events[Len(events)] = Finished]_vars

\* a second worker has been created after the first was cancelled in the
\* middle of the first file: one of its two cues is on disk
C27_Witness ==
    /\ pc = "new"
    /\ ~is_cancelled
    /\ Len(input_files) >= 1
    /\ input_files[1].input_path = Selectable[1]
    /\ outputs[input_files[1].output_path].exists
    /\ outputs[input_files[1].output_path].data = WrittenFor(<<CueLine1>>, 1)

\* C28: no two entries of the job list have the same input path
C28_DistinctInputPaths ==
    \A j, k \in 1..Len(input_files) :
        j # k => input_files[j].input_path # input_files[k].input_path

====
